---- MODULE Spec2Model ----
(***************************************************************************)
(* Royal Game of Ur (RedMoikle/GameOfUr): the GameManager turn state       *)
(* machine of main.py and the Token move resolution of game_pieces.py.     *)
(* One action per command of the presentation layer (run() in main.py      *)
(* wires them): roll_dice, token selection, end_turn, start_game and       *)
(* set_event_active.  Every method is an operator from a session record    *)
(* to a session record, so that a handler is the composition of the calls  *)
(* it makes, in the order the code makes them.                             *)
(***************************************************************************)
EXTENDS Integers, Sequences, FiniteSets, TLC

VARIABLES token_count, target_score, tokens, player_scores, running,
          turn_stage, player_turn, rolled_value, events, moves

\* events is the list of notifications (signal emissions) of the last
\* command, in order; moves counts the token moves of the current game and
\* only bounds the exploration (see MoveCap).
vars == <<token_count, target_score, tokens, player_scores, running,
          turn_stage, player_turn, rolled_value, events, moves>>

(* ------------------------------ bounds --------------------------------- *)
\* Tokens per player and points needed to win.  The source sets both to 7
\* (main.py:108-109); the model is checked for every count in 1 .. MaxTokens,
\* the two attributes being equal as in the source.
MaxTokens == 2
\* Successful token moves explored per game (counted from start_game), shared
\* out over the tokens of a player: with one token each, 8 moves let both
\* players finish; with two tokens each, 4 moves reach a friendly block, a
\* displacement and a finished token.
MaxBudget == 8

(* ------------------------- program constants --------------------------- *)
players == 2
DiceCount == 4
TILE_NOTHING == 0
TILE_NORMAL == 1
TILE_ROSETTA == 2
TILE_GOAL == 3
\* Python's None where the code uses it for "no tile", "no token", "no roll".
None == -1
\* None where a token is expected (get_position_collision found nothing).
NoToken == <<None, None>>

STAGE_ROLLING == "rolling"
STAGE_MOVING == "moving"
STAGE_NONE == "none"

INVALID_MOVE == "invalid-move"
FREE_TURN == "free-turn"
MOVE_BLOCKED == "move-blocked"
FRIENDLY_TOKEN == "friendly-token"
OPPONENT_TOKEN == "opponent-token"
PROTECTED_OPPONENT == "protected-opponent"
DISPLACED_OPPONENT == "displaced-opponent"
TOO_FAR == "too-far"
PATH_COMPLETE == "path-complete"
MOVE_SUCCESSFULL == "move-successful"

\* A board on which the last cell of each path is an ordinary tile.
board_without_goal == <<2, 1, 2,
                        1, 1, 1,
                        1, 1, 1,
                        1, 2, 1,
                        0, 1, 0,
                        1, 1, 1,
                        2, 1, 2,
                        1, 1, 1>>

\* The board, one tile type per board index 0..23 (board[i + 1] is tile i).
board == <<2, 1, 2,
           1, 1, 1,
           1, 1, 1,
           1, 2, 1,
           0, 1, 0,
           3, 1, 3,
           2, 1, 2,
           1, 1, 1>>

\* Paths whose first cell is the same tile for both players.
paths_sharing_start ==
    << <<9, 6, 3, 0, 1, 4, 7, 10, 13, 16, 19, 22, 21, 18, 15>>,
       <<9, 8, 5, 2, 1, 4, 7, 10, 13, 16, 19, 22, 23, 20, 17>> >>

\* The path of each player, as board indices (paths[p + 1][k + 1] is step k).
paths == << <<9, 6, 3, 0, 1, 4, 7, 10, 13, 16, 19, 22, 21, 18, 15>>,
            <<11, 8, 5, 2, 1, 4, 7, 10, 13, 16, 19, 22, 23, 20, 17>> >>

Players == 0 .. (players - 1)
\* The tokens create_pieces makes: <<player, token_id>>.
TokenSet == Players \X (0 .. (token_count - 1))
\* self.tokens, in creation order: player 0's tokens, then player 1's.
TokenList == [n \in 1 .. (players * token_count) |->
                <<(n - 1) \div token_count, (n - 1) % token_count>>]

BoardAt(tile) == board[tile + 1]
PathAt(p, k) == paths[p + 1][k + 1]
PathLen(p) == Len(paths[p + 1])

In(m, list) == \E k \in 1 .. Len(list) : list[k] = m

(* ------------------------------ session -------------------------------- *)
\* The session as one record: what the methods below read and write.
Session == [token_count |-> token_count, target_score |-> target_score,
            tokens |-> tokens, player_scores |-> player_scores,
            running |-> running, turn_stage |-> turn_stage,
            player_turn |-> player_turn, rolled_value |-> rolled_value,
            events |-> events, moves |-> moves]

Becomes(s) ==
    /\ token_count' = s.token_count
    /\ target_score' = s.target_score
    /\ tokens' = s.tokens
    /\ player_scores' = s.player_scores
    /\ running' = s.running
    /\ turn_stage' = s.turn_stage
    /\ player_turn' = s.player_turn
    /\ rolled_value' = s.rolled_value
    /\ events' = s.events
    /\ moves' = s.moves

\* Signal.emit: the notification is delivered to the connected callbacks.
Emit(s, e) == [s EXCEPT !.events = Append(@, e)]

HomeToken == [path_position |-> -1, on_path |-> FALSE, finished |-> FALSE]

(* ------------------------------- Token --------------------------------- *)
\* Token.tile_location(offset=0)
tile_location(s, t) ==
    LET tok == s.tokens[t]
    IN  IF tok.finished \/ ~tok.on_path THEN None
        ELSE IF tok.path_position = -1 THEN None
        ELSE PathAt(t[1], tok.path_position)

\* GameManager.get_position_collision: the first token of self.tokens on the tile
get_position_collision(s, tile_position) ==
    IF tile_position = None THEN NoToken
    ELSE LET hits == {n \in 1 .. Len(TokenList) :
                         tile_location(s, TokenList[n]) = tile_position}
         IN  IF hits = {} THEN NoToken
             ELSE TokenList[CHOOSE n \in hits : \A m \in hits : n <= m]

\* check_move with the friendly-token test lost: a friendly occupant is
\* treated as no occupant.
check_move_no_friendly(s, t, target_tile) ==
    LET collision == get_position_collision(s, target_tile)
        tile_type == BoardAt(target_tile)
    IN  IF collision # NoToken /\ collision[1] # t[1]
        THEN IF tile_type = TILE_ROSETTA
             THEN << <<OPPONENT_TOKEN, MOVE_BLOCKED, PROTECTED_OPPONENT>>, collision >>
             ELSE << <<OPPONENT_TOKEN, MOVE_SUCCESSFULL, DISPLACED_OPPONENT>>, collision >>
        ELSE IF tile_type = TILE_ROSETTA
             THEN << <<MOVE_SUCCESSFULL, FREE_TURN>>, NoToken >>
             ELSE IF tile_type = TILE_GOAL
                  THEN << <<MOVE_SUCCESSFULL, PATH_COMPLETE>>, NoToken >>
                  ELSE << <<MOVE_SUCCESSFULL>>, NoToken >>

\* check_move with the rosette test lost: an opponent is displaced anywhere.
check_move_no_rosetta(s, t, target_tile) ==
    LET collision == get_position_collision(s, target_tile)
        tile_type == BoardAt(target_tile)
    IN  IF collision # NoToken
        THEN IF collision[1] = t[1]
             THEN << <<MOVE_BLOCKED, FRIENDLY_TOKEN>>, collision >>
             ELSE << <<OPPONENT_TOKEN, MOVE_SUCCESSFULL, DISPLACED_OPPONENT>>, collision >>
        ELSE IF tile_type = TILE_ROSETTA
             THEN << <<MOVE_SUCCESSFULL, FREE_TURN>>, collision >>
             ELSE IF tile_type = TILE_GOAL
                  THEN << <<MOVE_SUCCESSFULL, PATH_COMPLETE>>, collision >>
                  ELSE << <<MOVE_SUCCESSFULL>>, collision >>

\* check_move whose tile tests also run after a collision was judged.
check_move_falls_through(s, t, target_tile) ==
    LET collision == get_position_collision(s, target_tile)
        tile_type == BoardAt(target_tile)
        hit == IF collision = NoToken THEN <<>>
               ELSE IF collision[1] = t[1] THEN <<MOVE_BLOCKED, FRIENDLY_TOKEN>>
               ELSE IF tile_type = TILE_ROSETTA
                    THEN <<OPPONENT_TOKEN, MOVE_BLOCKED, PROTECTED_OPPONENT>>
                    ELSE <<OPPONENT_TOKEN, MOVE_SUCCESSFULL, DISPLACED_OPPONENT>>
        tile == IF tile_type = TILE_ROSETTA THEN <<MOVE_SUCCESSFULL, FREE_TURN>>
                ELSE IF tile_type = TILE_GOAL THEN <<MOVE_SUCCESSFULL, PATH_COMPLETE>>
                ELSE IF collision = NoToken THEN <<MOVE_SUCCESSFULL>> ELSE <<>>
    IN  << hit \o tile, collision >>

\* Token.check_move: <<messages, collision>>
check_move(s, t, target_tile) ==
    LET collision == get_position_collision(s, target_tile)
        tile_type == BoardAt(target_tile)
    IN  IF collision # NoToken
        THEN IF collision[1] = t[1]
             THEN << <<MOVE_BLOCKED, FRIENDLY_TOKEN>>, collision >>
             ELSE IF tile_type = TILE_ROSETTA
                  THEN << <<OPPONENT_TOKEN, MOVE_BLOCKED, PROTECTED_OPPONENT>>, collision >>
                  ELSE << <<OPPONENT_TOKEN, MOVE_SUCCESSFULL, DISPLACED_OPPONENT>>, collision >>
        ELSE IF tile_type = TILE_ROSETTA
             THEN << <<MOVE_SUCCESSFULL, FREE_TURN>>, collision >>
             ELSE IF tile_type = TILE_GOAL
                  THEN << <<MOVE_SUCCESSFULL, PATH_COMPLETE>>, collision >>
                  ELSE << <<MOVE_SUCCESSFULL>>, collision >>

\* can_move that only tests that the target is on the path.
token_can_move_on_path(s, t, distance) ==
    IF distance = 0 THEN FALSE
    ELSE s.tokens[t].path_position + distance < PathLen(t[1])

\* can_move without the test for distance 0; a negative index counts from the
\* end of the path.
token_can_move_zero_unchecked(s, t, distance) ==
    LET target_position == s.tokens[t].path_position + distance
        index == IF target_position < 0 THEN PathLen(t[1]) + target_position
                 ELSE target_position
    IN  IF target_position < PathLen(t[1])
        THEN In(MOVE_SUCCESSFULL, check_move(s, t, PathAt(t[1], index))[1])
        ELSE FALSE

\* Token.can_move(distance)
token_can_move(s, t, distance) ==
    IF distance = 0 THEN FALSE
    ELSE LET target_position == s.tokens[t].path_position + distance
         IN  IF target_position < PathLen(t[1])
             THEN In(MOVE_SUCCESSFULL, check_move(s, t, PathAt(t[1], target_position))[1])
             ELSE FALSE

\* reset that forgets the flags.
reset_position_only(s, t) == [s EXCEPT !.tokens[t].path_position = -1]

\* Token.reset
reset(s, t) == [s EXCEPT !.tokens[t].path_position = -1,
                         !.tokens[t].on_path = FALSE,
                         !.tokens[t].finished = FALSE]

\* for piece in self.pieces.values(): piece.reset(), over the first n tokens
RECURSIVE reset_pieces(_, _)
reset_pieces(s, n) ==
    IF n = 0 THEN s ELSE reset_pieces(reset(s, TokenList[n]), n - 1)

\* move that advances the token by one cell whatever the target.
move_to_next(s, t, path_position) == [s EXCEPT !.tokens[t].path_position = @ + 1]

\* Token.move(path_position)
move(s, t, path_position) == [s EXCEPT !.tokens[t].path_position = path_position]

\* displace that only takes the token off the path flag.
displace_keeps_position(s, t) == [s EXCEPT !.tokens[t].on_path = FALSE]

\* Token.displace
displace(s, t) == [s EXCEPT !.tokens[t].on_path = FALSE,
                            !.tokens[t].path_position = -1]

(* ---------------------------- GameManager ------------------------------ *)
\* GameManager.set_event_active
set_event_active(s, active) == [s EXCEPT !.running = active]

\* GameManager.start_turn
start_turn(s, player) ==
    Emit([s EXCEPT !.turn_stage = STAGE_ROLLING, !.player_turn = player],
         <<"roll_requested", player>>)

\* end_turn that restarts the turn of the same player.
end_turn_same_player(s) == start_turn(s, s.player_turn)

\* GameManager.end_turn
end_turn(s) == start_turn(s, (s.player_turn + 1) % players)

\* free_turn that does not announce the turn.
free_turn_silent(s) == [s EXCEPT !.turn_stage = STAGE_ROLLING]

\* GameManager.free_turn
free_turn(s) ==
    Emit([s EXCEPT !.turn_stage = STAGE_ROLLING], <<"roll_requested", s.player_turn>>)

\* start_game that carries the scores over to the new game.
start_game_keeps_scores(s) ==
    LET s1 == set_event_active(s, TRUE)
        s2 == [s1 EXCEPT !.rolled_value = None]
        s3 == [reset_pieces(s2, Len(TokenList)) EXCEPT !.moves = 0]
        s4 == Emit(s3, <<"new_game_started">>)
    IN  start_turn(s4, 0)

\* GameManager.start_game
start_game(s) ==
    LET s1 == set_event_active(s, TRUE)
        s2 == [s1 EXCEPT !.player_scores = [p \in Players |-> 0],
                         !.rolled_value = None]
        s3 == [reset_pieces(s2, Len(TokenList)) EXCEPT !.moves = 0]
        s4 == Emit(s3, <<"new_game_started">>)
    IN  start_turn(s4, 0)

\* can_move that answers for the player's first token only.
can_move_first_token_only(s, distance, player) ==
    token_can_move(s, TokenList[player * s.token_count + 1], distance)

\* GameManager.can_move(distance, player)
can_move(s, distance, player) ==
    \E n \in 1 .. Len(TokenList) :
        /\ TokenList[n][1] = player
        /\ token_can_move(s, TokenList[n], distance)

\* sum that leaves out the last die.
sum_of_three(rolled_values) ==
    rolled_values[1] + rolled_values[2] + rolled_values[3]

\* sum(rolled_values) over the four dice
sum(rolled_values) ==
    rolled_values[1] + rolled_values[2] + rolled_values[3] + rolled_values[4]

\* roll_dice without the turn_stage test.
roll_dice_any_stage(s, rolled_values) ==
    IF ~s.running THEN s
    ELSE LET s1 == [s EXCEPT !.rolled_value = sum(rolled_values)]
             s2 == [s1 EXCEPT !.turn_stage = STAGE_MOVING]
             s3 == Emit(s2, <<"dice_rolled", rolled_values>>)
         IN  IF ~can_move(s3, s3.rolled_value, s3.player_turn)
             THEN Emit(s3, <<"cant_move">>)
             ELSE s3

\* roll_dice that ends the turn itself when no token can move.
roll_dice_auto_ends(s, rolled_values) ==
    IF ~s.running THEN s
    ELSE IF s.turn_stage # STAGE_ROLLING THEN s
    ELSE LET total == sum(rolled_values)
             s1 == [s EXCEPT !.rolled_value = total]
             s2 == [s1 EXCEPT !.turn_stage = STAGE_MOVING]
             s3 == Emit(s2, <<"dice_rolled", rolled_values>>)
         IN  IF ~can_move(s3, s3.rolled_value, s3.player_turn)
             THEN end_turn(Emit(s3, <<"cant_move">>))
             ELSE s3

\* roll_dice that keeps the earlier rolled value when the dice total 0.
roll_dice_keeps_on_zero(s, rolled_values) ==
    IF ~s.running THEN s
    ELSE IF s.turn_stage # STAGE_ROLLING THEN s
    ELSE LET total == sum(rolled_values)
             s1 == IF total = 0 THEN s ELSE [s EXCEPT !.rolled_value = total]
             s2 == [s1 EXCEPT !.turn_stage = STAGE_MOVING]
             s3 == Emit(s2, <<"dice_rolled", rolled_values>>)
         IN  IF ~can_move(s3, total, s3.player_turn)
             THEN Emit(s3, <<"cant_move">>)
             ELSE s3

\* GameManager.roll_dice; rolled_values are the four Die.roll() results
roll_dice(s, rolled_values) ==
    IF ~s.running THEN s
    ELSE IF s.turn_stage # STAGE_ROLLING THEN s
    ELSE LET total == sum(rolled_values)
             s1 == [s EXCEPT !.rolled_value = total]
             s2 == [s1 EXCEPT !.turn_stage = STAGE_MOVING]
             s3 == Emit(s2, <<"dice_rolled", rolled_values>>)
         IN  IF ~can_move(s3, s3.rolled_value, s3.player_turn)
             THEN Emit(s3, <<"cant_move">>)
             ELSE s3

\* GameManager.win_game; reply is the answer to UrGameWindow.win_message's dialog
win_game(s, player, reply) ==
    LET s1 == Emit(s, <<"message_updated",
                        <<IF player = 0 THEN "Player 1 wins!" ELSE "Player 2 wins!">> >>)
        s2 == Emit(s1, <<"game_won", player>>)
        s3 == IF reply = "Ok" THEN start_game(s2) ELSE s2
    IN  [s3 EXCEPT !.running = FALSE]

\* score_point that credits the point to every player.
score_point_everyone(s, player, reply) ==
    LET s1 == [s EXCEPT !.player_scores = [p \in Players |-> @[p] + 1]]
        s2 == Emit(s1, <<"point_scored", player, s1.player_scores[player]>>)
    IN  IF s2.player_scores[player] >= s2.target_score
        THEN win_game(s2, player, reply)
        ELSE s2

\* GameManager.score_point
score_point(s, player, reply) ==
    LET s1 == [s EXCEPT !.player_scores[player] = @ + 1]
        s2 == Emit(s1, <<"point_scored", player, s1.player_scores[player]>>)
    IN  IF s2.player_scores[player] >= s2.target_score
        THEN win_game(s2, player, reply)
        ELSE s2

\* end_path that leaves the token flagged as on the path.
end_path_stays_on_path(s, t, reply) ==
    score_point([s EXCEPT !.tokens[t].finished = TRUE], t[1], reply)

\* Token.end_path
end_path(s, t, reply) ==
    LET s1 == [s EXCEPT !.tokens[t].finished = TRUE, !.tokens[t].on_path = FALSE]
    IN  score_point(s1, t[1], reply)

\* piece_moved that ends the turn even on a free turn.
piece_moved_always_ends(s, messages) ==
    end_turn(Emit(s, <<"message_updated", messages>>))

\* GameManager.piece_moved
piece_moved(s, messages) ==
    LET s1 == Emit(s, <<"message_updated", messages>>)
    IN  IF ~In(FREE_TURN, messages) THEN end_turn(s1) ELSE s1

\* piece_blocked that also ends the turn.
piece_blocked_ends_turn(s, messages) ==
    end_turn(Emit(s, <<"message_updated", messages>>))

\* GameManager.piece_blocked
piece_blocked(s, messages) == Emit(s, <<"message_updated", messages>>)

\* resolve that lets an overshooting token land on the last cell of its path.
resolve_overshoot_lands(s, t) ==
    LET rolled == s.rolled_value
        target_position == s.tokens[t].path_position + rolled
    IN  IF rolled = 0 THEN << <<MOVE_BLOCKED, INVALID_MOVE>>, NoToken >>
        ELSE IF target_position < PathLen(t[1])
             THEN check_move(s, t, PathAt(t[1], target_position))
             ELSE check_move(s, t, PathAt(t[1], PathLen(t[1]) - 1))

\* The first half of Token.action: <<move_check, collision>> for the rolled value
resolve(s, t) ==
    LET rolled == s.rolled_value
        target_position == s.tokens[t].path_position + rolled
    IN  IF rolled = 0 THEN << <<MOVE_BLOCKED, INVALID_MOVE>>, NoToken >>
        ELSE IF target_position < PathLen(t[1])
             THEN check_move(s, t, PathAt(t[1], target_position))
             ELSE << <<MOVE_BLOCKED, TOO_FAR>>, NoToken >>

\* action without the test that the token belongs to the active player.
action_any_player(s, t, reply) ==
    IF s.turn_stage # STAGE_MOVING THEN s
    ELSE LET r == resolve(s, t)
             move_check == r[1]
             collision == r[2]
             target_position == s.tokens[t].path_position + s.rolled_value
         IN  IF In(MOVE_BLOCKED, move_check)
             THEN piece_blocked(s, move_check)
             ELSE LET s1 == IF In(DISPLACED_OPPONENT, move_check)
                            THEN displace(s, collision) ELSE s
                      s2 == IF In(MOVE_SUCCESSFULL, move_check)
                            THEN move([s1 EXCEPT !.tokens[t].on_path = TRUE,
                                                 !.moves = @ + 1],
                                      t, target_position)
                            ELSE s1
                      s3 == IF In(PATH_COMPLETE, move_check)
                            THEN end_path(s2, t, reply) ELSE s2
                      s4 == IF In(FREE_TURN, move_check)
                            THEN free_turn(s3) ELSE s3
                  IN  piece_moved(s4, move_check)

\* Token.action
action(s, t, reply) ==
    IF s.player_turn # t[1] THEN s
    ELSE IF s.turn_stage # STAGE_MOVING THEN s
    ELSE LET r == resolve(s, t)
             move_check == r[1]
             collision == r[2]
             target_position == s.tokens[t].path_position + s.rolled_value
         IN  IF In(MOVE_BLOCKED, move_check)
             THEN piece_blocked(s, move_check)
             ELSE LET s1 == IF In(DISPLACED_OPPONENT, move_check)
                            THEN displace(s, collision) ELSE s
                      s2 == IF In(MOVE_SUCCESSFULL, move_check)
                            THEN move([s1 EXCEPT !.tokens[t].on_path = TRUE,
                                                 !.moves = @ + 1],
                                      t, target_position)
                            ELSE s1
                      s3 == IF In(PATH_COMPLETE, move_check)
                            THEN end_path(s2, t, reply) ELSE s2
                      s4 == IF In(FREE_TURN, move_check)
                            THEN free_turn(s3) ELSE s3
                  IN  piece_moved(s4, move_check)

\* _selection_made that does not test whether the engine is active.
selection_made_unpaused(s, t, reply) == action(s, t, reply)

\* GameManager._selection_made with token t selected
selection_made(s, t, reply) ==
    IF ~s.running THEN s ELSE action(s, t, reply)

(* ------------------------------ commands ------------------------------- *)
\* A command starts with an empty notification log.
Fresh == [Session EXCEPT !.events = <<>>]

\* The answers to the "Start a new game?" dialog of UrGameWindow.win_message
Replies == {"Ok", "Close"}

\* Die.roll: random.choice([0, 1]) for each of the dice
DiceRolls == [1 .. DiceCount -> {0, 1}]

\* Whether selecting t now resolves (selection reaches Token.action's rules)
Resolves(t) == running /\ player_turn = t[1] /\ turn_stage = STAGE_MOVING

\* Whether selecting t now would move a token
WouldMove(t) == Resolves(t) /\ ~In(MOVE_BLOCKED, resolve(Session, t)[1])

\* GameManager.__init__
Init ==
    /\ token_count \in 1 .. MaxTokens
    /\ target_score = token_count
    /\ tokens = [t \in TokenSet |-> HomeToken]
    /\ player_scores = [p \in Players |-> 0]
    /\ running = FALSE
    /\ turn_stage = STAGE_NONE
    /\ player_turn = 0
    /\ rolled_value = None
    /\ events = <<>>
    /\ moves = 0

\* The number of moves explored in a game.
MoveCap == MaxBudget \div token_count

RollStep(rolled_values) == Becomes(roll_dice(Fresh, rolled_values))

SelectStep(t, reply) == Becomes(selection_made(Fresh, t, reply))

StartGame == Becomes(start_game(Fresh))

SetEventActive == \E active \in BOOLEAN : Becomes(set_event_active(Fresh, active))

Roll == \E rolled_values \in DiceRolls : RollStep(rolled_values)

SelectToken == \E t \in TokenSet, reply \in Replies :
                   /\ WouldMove(t) => moves < MoveCap
                   /\ SelectStep(t, reply)

EndTurn == Becomes(end_turn(Fresh))

Next == StartGame \/ SetEventActive \/ Roll \/ SelectToken \/ EndTurn

Spec == Init /\ [][Next]_vars

(* ------------------------------ properties ----------------------------- *)
\* The session state a command may change, apart from the notification log.
game == <<tokens, player_scores, player_turn, turn_stage, rolled_value>>

\* Whether the last command emitted a notification of this kind
Emitted(kind) == \E k \in 1 .. Len(events) : events[k][1] = kind

\* Whether the last command emitted a message_updated carrying message m
Messaged(m) == \E k \in 1 .. Len(events) :
                  events[k][1] = "message_updated" /\ In(m, events[k][2])

OnBoard(t) == tile_location(Session, t) # None

\* C1: no board cell is occupied by more than one on-path token: two tokens,
\* of the same player or of opposing players, never have the same
\* tile_location.
C1_OneTokenPerCell ==
    \A t1 \in TokenSet, t2 \in TokenSet :
        (t1 # t2 /\ OnBoard(t1)) =>
            tile_location(Session, t1) # tile_location(Session, t2)

\* A token was just displaced: the mover stands on a shared cell and the
\* token it met is back home.
C1_Witness ==
    /\ Messaged(DISPLACED_OPPONENT)
    /\ \E t1 \in TokenSet, t2 \in TokenSet :
          /\ t1[1] # player_turn /\ OnBoard(t1)
          /\ tokens[t1].path_position \in 4 .. 11
          /\ t2[1] = player_turn /\ tokens[t2] = HomeToken

\* Whether a handler's result s2 leaves the session as it is now
SameGame(s2) ==
    /\ s2.tokens = tokens
    /\ s2.player_scores = player_scores
    /\ s2.player_turn = player_turn
    /\ s2.turn_stage = turn_stage
    /\ s2.rolled_value = rolled_value
    /\ s2.running = running

Other(p) == (p + 1) % 2

\* The path index t would reach with the rolled distance
Target(t) == tokens[t].path_position + rolled_value

\* C2: a selection whose move resolves to Blocked changes no token, score,
\* player_turn, turn_stage (it stays Moving) or rolled distance; it only
\* emits the failure message.
C2_BlockedChangesNothing ==
    \A t \in TokenSet, reply \in Replies :
        (Resolves(t) /\ In(MOVE_BLOCKED, resolve(Session, t)[1])) =>
            LET s2 == selection_made(Fresh, t, reply)
            IN  /\ SameGame(s2)
                /\ s2.turn_stage = STAGE_MOVING
                /\ s2.events = << <<"message_updated", resolve(Session, t)[1]>> >>

\* A selection was just blocked by a friendly token.
C2_Witness ==
    /\ turn_stage = STAGE_MOVING
    /\ events = << <<"message_updated", <<MOVE_BLOCKED, FRIENDLY_TOKEN>> >> >>

\* C3: roll is honored only in Rolling, where it sets the rolled distance and
\* moves the stage to Moving without changing player_turn; in any other stage
\* it changes neither the rolled distance nor anything else.
C3_RollOnlyInRolling ==
    \A rolled_values \in DiceRolls :
        LET s2 == roll_dice(Fresh, rolled_values)
        IN  /\ turn_stage # STAGE_ROLLING => s2 = Fresh
            /\ s2 # Fresh =>
                 /\ turn_stage = STAGE_ROLLING
                 /\ s2.turn_stage = STAGE_MOVING
                 /\ s2.player_turn = player_turn
                 /\ s2.rolled_value = sum(rolled_values)
                 /\ s2.rolled_value \in 0 .. DiceCount
                 /\ s2.tokens = tokens
                 /\ s2.player_scores = player_scores
                 /\ s2.running = running

\* A roll was just honored, on a turn that followed an earlier roll.
C3_Witness ==
    /\ turn_stage = STAGE_MOVING
    /\ Emitted("dice_rolled")
    /\ rolled_value \in 0 .. DiceCount
    /\ moves > 0

\* C4: a successful move without FreeTurn (plain move, displacement or path
\* completion) leaves turn_stage Rolling and player_turn the other player.
C4_MoveEndsTurn ==
    \A t \in TokenSet, reply \in Replies :
        (WouldMove(t) /\ ~In(FREE_TURN, resolve(Session, t)[1])) =>
            LET s2 == selection_made(Fresh, t, reply)
            IN  /\ s2.turn_stage = STAGE_ROLLING
                /\ s2.player_turn = Other(player_turn)

\* C5: landing on an unoccupied rosette is Success with FreeTurn; afterwards
\* player_turn is unchanged and turn_stage is Rolling.
C5_FreeTurn ==
    \A t \in TokenSet, reply \in Replies :
        (/\ Resolves(t)
         /\ rolled_value >= 1
         /\ Target(t) < PathLen(t[1])
         /\ BoardAt(PathAt(t[1], Target(t))) = TILE_ROSETTA
         /\ \A t2 \in TokenSet :
               tile_location(Session, t2) # PathAt(t[1], Target(t))) =>
            LET s2 == selection_made(Fresh, t, reply)
            IN  /\ resolve(Session, t)[1] = <<MOVE_SUCCESSFULL, FREE_TURN>>
                /\ s2.tokens[t].path_position = Target(t)
                /\ s2.player_turn = player_turn
                /\ s2.turn_stage = STAGE_ROLLING
                /\ s2.running

\* A token has just landed on a rosette and its player is to roll again.
C5_Witness ==
    /\ Messaged(FREE_TURN)
    /\ turn_stage = STAGE_ROLLING
    /\ \E t \in TokenSet :
          /\ t[1] = player_turn /\ OnBoard(t)
          /\ BoardAt(tile_location(Session, t)) = TILE_ROSETTA

\* C6: endTurn switches to the next player's Rolling stage whatever the stage
\* it is issued in.
C6_EndTurnAlwaysSwitches ==
    LET s2 == end_turn(Fresh)
    IN  /\ s2.player_turn = Other(player_turn)
        /\ s2.turn_stage = STAGE_ROLLING
        /\ s2.tokens = tokens
        /\ s2.player_scores = player_scores
        /\ s2.rolled_value = rolled_value
        /\ s2.running = running

\* endTurn was just issued after a roll of 0 left no legal move.
C6_Witness ==
    /\ events = << <<"roll_requested", player_turn>> >>
    /\ turn_stage = STAGE_ROLLING
    /\ rolled_value = 0
    /\ running

\* A player has reached target_score and no new game was started since.
Won == \E p \in Players : player_scores[p] >= target_score

\* C7: once a player's score has reached target_score, every roll and token
\* selection is ignored until startNewGame, whatever endTurn and
\* setEngineActive commands come in between.
C7_WonIsTerminal ==
    Won =>
      /\ \A rolled_values \in DiceRolls : roll_dice(Fresh, rolled_values) = Fresh
      /\ \A t \in TokenSet, reply \in Replies :
            selection_made(Fresh, t, reply) = Fresh

\* C8: startNewGame leaves every token at home, both scores 0, player_turn 0
\* and turn_stage Rolling, whatever state it is invoked in.
C8_StartGameResets ==
    LET s2 == start_game(Fresh)
    IN  /\ \A t \in TokenSet :
              /\ s2.tokens[t].path_position = -1
              /\ ~s2.tokens[t].on_path
              /\ ~s2.tokens[t].finished
        /\ \A p \in Players : s2.player_scores[p] = 0
        /\ s2.player_turn = 0
        /\ s2.turn_stage = STAGE_ROLLING

\* A new game was just started by the command.
C8_Witness ==
    /\ Len(events) = 2
    /\ events[1] = <<"new_game_started">>
    /\ events[2] = <<"roll_requested", 0>>
    /\ \A t \in TokenSet : tokens[t] = HomeToken

\* Whether selecting t now takes it to the last path index
Finishing(t) == Target(t) = PathLen(t[1]) - 1 /\ WouldMove(t)

OnProtected(t, d) ==
    LET target == tokens[t].path_position + d
    IN  /\ target < PathLen(t[1])
        /\ BoardAt(PathAt(t[1], target)) = TILE_ROSETTA
        /\ \E t2 \in TokenSet :
              /\ t2[1] # t[1]
              /\ tile_location(Session, t2) = PathAt(t[1], target)

\* C10: a move whose target cell is a rosette occupied by an opponent token
\* is Blocked(ProtectedOpponent) for every rolled distance, moves nothing and
\* displaces nothing; a token standing on a rosette is never sent home.
C10_RosetteImmunity ==
    /\ [](\A t \in TokenSet :
            Resolves(t) =>
               \A d \in 1 .. DiceCount :
                  OnProtected(t, d) =>
                     \A reply \in Replies :
                        LET s0 == [Fresh EXCEPT !.rolled_value = d]
                            s2 == selection_made(s0, t, reply)
                        IN  /\ resolve(s0, t)[1] =
                                 <<OPPONENT_TOKEN, MOVE_BLOCKED, PROTECTED_OPPONENT>>
                            /\ ~token_can_move(s0, t, d)
                            /\ s2.tokens = tokens
                            /\ s2.events =
                                 << <<"message_updated", resolve(s0, t)[1]>> >>)
    /\ [][\A t \in TokenSet :
            (/\ OnBoard(t)
             /\ BoardAt(tile_location(Session, t)) = TILE_ROSETTA
             /\ tokens'[t].path_position = -1) =>
               \E k \in 1 .. Len(events') : events'[k] = <<"new_game_started">>]_vars

\* A move onto an opponent's rosette was just refused.
C10_Witness ==
    /\ Messaged(PROTECTED_OPPONENT)
    /\ turn_stage = STAGE_MOVING
    /\ \E t \in TokenSet :
          /\ t[1] = player_turn
          /\ OnProtected(t, rolled_value)

\* Whether t, moving the rolled distance, would land on a cell that is not a
\* rosette and holds the opponent token t2
OnOpponent(t, t2) ==
    /\ rolled_value >= 1
    /\ Target(t) < PathLen(t[1])
    /\ BoardAt(PathAt(t[1], Target(t))) # TILE_ROSETTA
    /\ t2[1] # t[1]
    /\ tile_location(Session, t2) = PathAt(t[1], Target(t))

\* C11: a move whose target cell is not a rosette and holds an opponent token
\* is Success with DisplacedOpponent: the occupant goes home (path_position
\* -1, on_path false) and the mover's path_position is its old one plus the
\* rolled distance.
C11_Displacement ==
    \A t \in TokenSet, t2 \in TokenSet :
        (Resolves(t) /\ OnOpponent(t, t2)) =>
            \A reply \in Replies :
                LET s2 == selection_made(Fresh, t, reply)
                IN  /\ resolve(Session, t) =
                         << <<OPPONENT_TOKEN, MOVE_SUCCESSFULL, DISPLACED_OPPONENT>>, t2 >>
                    /\ s2.tokens[t2].path_position = -1
                    /\ ~s2.tokens[t2].on_path
                    /\ s2.tokens[t].path_position = Target(t)
                    /\ s2.tokens[t].on_path
                    /\ \A t3 \in TokenSet \ {t, t2} : s2.tokens[t3] = tokens[t3]

\* An on-board token has just moved onto an opponent's cell and sent it home.
C11_Witness ==
    /\ Len(events) >= 1
    /\ events[1] = <<"message_updated",
                     <<OPPONENT_TOKEN, MOVE_SUCCESSFULL, DISPLACED_OPPONENT>> >>
    /\ \E t \in TokenSet, t2 \in TokenSet :
          /\ t[1] # t2[1]
          /\ tokens[t].on_path /\ tokens[t].path_position - rolled_value >= 0
          /\ tokens[t2].path_position = -1 /\ ~tokens[t2].on_path

\* C12: a token at path index p moved by d >= 1 with p + d >= path_length is
\* Blocked(TooFar) and stays where it is; a token becomes finished only by
\* landing exactly on the last path index, and a finished token is never
\* moved again.
C12_Overshoot ==
    /\ [](\A t \in TokenSet :
            /\ tokens[t].finished => tokens[t].path_position = PathLen(t[1]) - 1
            /\ Resolves(t) =>
                 \A d \in 1 .. DiceCount :
                    tokens[t].path_position + d >= PathLen(t[1]) =>
                       \A reply \in Replies :
                          LET s0 == [Fresh EXCEPT !.rolled_value = d]
                              s2 == selection_made(s0, t, reply)
                          IN  /\ resolve(s0, t) = << <<MOVE_BLOCKED, TOO_FAR>>, NoToken >>
                              /\ ~token_can_move(s0, t, d)
                              /\ s2.tokens = tokens
                              /\ s2.player_scores = player_scores)
    /\ [][\A t \in TokenSet :
            /\ (tokens'[t].finished /\ ~tokens[t].finished) =>
                  /\ turn_stage = STAGE_MOVING
                  /\ t[1] = player_turn
                  /\ Target(t) = PathLen(t[1]) - 1
                  /\ tokens'[t].path_position = PathLen(t[1]) - 1
            /\ tokens[t].finished =>
                  \/ tokens'[t] = tokens[t]
                  \/ \E k \in 1 .. Len(events') :
                        events'[k] = <<"new_game_started">>]_vars

\* The active player, who holds a finished token, has just had a selection
\* refused as TooFar.
C12_Witness ==
    /\ events = << <<"message_updated", <<MOVE_BLOCKED, TOO_FAR>> >> >>
    /\ turn_stage = STAGE_MOVING
    /\ \E t \in TokenSet :
          /\ t[1] = player_turn
          /\ tokens[t].finished

\* C13: can_move(token, distance) agrees with the real resolution in every
\* reachable state, for every token and every distance 0..4: it is true
\* exactly when the move with that rolled distance resolves to Success, and
\* for the active player's tokens exactly when the selection moves the token.
C13_CanMoveAgrees ==
    [](\A d \in 0 .. DiceCount :
         LET s0 == [Fresh EXCEPT !.rolled_value = d]
         IN  \A t \in TokenSet :
           LET move_check == resolve(s0, t)[1]
               able == token_can_move(s0, t, d)
           IN  /\ able <=> (In(MOVE_SUCCESSFULL, move_check) /\ ~In(MOVE_BLOCKED, move_check))
               /\ Resolves(t) =>
                    \A reply \in Replies :
                       LET s2 == selection_made(s0, t, reply)
                       IN  IF able
                           THEN /\ s2.events # << <<"message_updated", move_check>> >>
                                /\ s2.tokens # tokens \/ s2.turn_stage # STAGE_MOVING
                                /\ (\A k \in 1 .. Len(s2.events) :
                                       s2.events[k] # <<"new_game_started">>) =>
                                      s2.tokens[t].path_position =
                                         tokens[t].path_position + d
                           ELSE /\ s2.events = << <<"message_updated", move_check>> >>
                                /\ s2.tokens = tokens
                                /\ s2.turn_stage = STAGE_MOVING)

\* A roll was just honored after which one of the active player's tokens can
\* move and another cannot, although its target is on the path.
C13_Witness ==
    /\ turn_stage = STAGE_MOVING
    /\ Len(events) = 1
    /\ events[1][1] = "dice_rolled"
    /\ \E t1 \in TokenSet, t2 \in TokenSet :
          /\ t1[1] = player_turn /\ t2[1] = player_turn
          /\ token_can_move(Session, t1, rolled_value)
          /\ ~token_can_move(Session, t2, rolled_value)
          /\ tokens[t2].path_position + rolled_value < PathLen(t2[1])

\* Whether every token of the active player would be refused for the rolled
\* distance of session s, by the rules a selection applies
NoLegalMove(s) ==
    \A t \in TokenSet :
        t[1] = s.player_turn => In(MOVE_BLOCKED, resolve(s, t)[1])

\* C14: an honored roll emits the no-legal-move signal exactly when none of
\* the active player's tokens can move the rolled distance, and the engine
\* does not end the turn itself: the stage stays Moving with the same player
\* until endTurn or startNewGame.
C14_CantMoveSignal ==
    /\ [](running /\ turn_stage = STAGE_ROLLING =>
            \A rolled_values \in DiceRolls :
               LET s2 == roll_dice(Fresh, rolled_values)
               IN  /\ s2.events[1] = <<"dice_rolled", rolled_values>>
                   /\ IF NoLegalMove(s2)
                      THEN s2.events = << s2.events[1], <<"cant_move">> >>
                      ELSE s2.events = << s2.events[1] >>
                   /\ s2.turn_stage = STAGE_MOVING
                   /\ s2.player_turn = player_turn)
    /\ [][(turn_stage = STAGE_MOVING /\ NoLegalMove(Session)) =>
             \/ /\ turn_stage' = STAGE_MOVING
                /\ player_turn' = player_turn
                /\ rolled_value' = rolled_value
                /\ tokens' = tokens
             \/ EndTurn
             \/ StartGame]_vars

\* A roll above 0 has just left the active player without a legal move.
C14_Witness ==
    /\ Len(events) = 2
    /\ events[2] = <<"cant_move">>
    /\ turn_stage = STAGE_MOVING
    /\ rolled_value >= 1
    /\ NoLegalMove(Session)

\* Whether selecting t now is refused as TooFar, FriendlyToken or
\* ProtectedOpponent
RefusedByRule(t) ==
    /\ Resolves(t)
    /\ In(MOVE_BLOCKED, resolve(Session, t)[1])
    /\ \/ In(TOO_FAR, resolve(Session, t)[1])
       \/ In(FRIENDLY_TOKEN, resolve(Session, t)[1])
       \/ In(PROTECTED_OPPONENT, resolve(Session, t)[1])

\* C15 as stated: a selection that resolves to Blocked by TooFar,
\* FriendlyToken or ProtectedOpponent ends the turn: the other player becomes
\* the active player, in Rolling.
C15_BlockedEndsTurn ==
    \A t \in TokenSet :
        RefusedByRule(t) =>
            \A reply \in Replies :
                LET s2 == selection_made(Fresh, t, reply)
                IN  /\ s2.player_turn = Other(player_turn)
                    /\ s2.turn_stage = STAGE_ROLLING

\* C15 amended: a selection that resolves to Blocked by TooFar, FriendlyToken
\* or ProtectedOpponent does not end the turn: the same player stays the
\* active player in Moving, no turn is started, and a following endTurn is
\* what hands the turn to the other player.
C15_BlockedKeepsTurn ==
    \A t \in TokenSet :
        RefusedByRule(t) =>
            \A reply \in Replies :
                LET s2 == selection_made(Fresh, t, reply)
                IN  /\ s2.player_turn = player_turn
                    /\ s2.turn_stage = STAGE_MOVING
                    /\ \A k \in 1 .. Len(s2.events) :
                          s2.events[k][1] # "roll_requested"
                    /\ end_turn(s2).player_turn = Other(player_turn)
                    /\ end_turn(s2).turn_stage = STAGE_ROLLING

\* A token on the board of the active player was just refused as TooFar and
\* the player is still to move.
C15_Witness ==
    /\ Messaged(TOO_FAR)
    /\ turn_stage = STAGE_MOVING
    /\ running
    /\ \E t \in TokenSet :
          /\ t[1] = player_turn /\ OnBoard(t)
          /\ Target(t) >= PathLen(t[1])

\* Whether the last command ran start_game after it had already emitted
\* notifications, that is, inside another handler's processing
StartedInside ==
    \E k \in 2 .. Len(events) : events[k] = <<"new_game_started">>

\* C16: every command runs to completion before another command is accepted:
\* no command handler starts while another command's processing, its
\* notification callbacks included, is still in progress; so start_game only
\* ever runs as the first step of a command of its own.
C16_RunToCompletion == ~StartedInside

\* C17: every resolution yields exactly one of Blocked and Success, never
\* both and never neither; DisplacedOpponent never comes with FreeTurn or
\* PathComplete, and FreeTurn never comes with PathComplete.
C17_OneOutcome ==
    [](\A t \in TokenSet, d \in 0 .. DiceCount :
           LET move_check == resolve([Fresh EXCEPT !.rolled_value = d], t)[1]
           IN  /\ In(MOVE_BLOCKED, move_check) # In(MOVE_SUCCESSFULL, move_check)
               /\ In(DISPLACED_OPPONENT, move_check) =>
                     /\ ~In(FREE_TURN, move_check)
                     /\ ~In(PATH_COMPLETE, move_check)
               /\ In(FREE_TURN, move_check) => ~In(PATH_COMPLETE, move_check)
               /\ In(MOVE_BLOCKED, move_check) =>
                     /\ ~In(DISPLACED_OPPONENT, move_check)
                     /\ ~In(FREE_TURN, move_check)
                     /\ ~In(PATH_COMPLETE, move_check))

\* A displacement was just resolved: Success with DisplacedOpponent alone.
C17_Witness ==
    /\ Messaged(MOVE_SUCCESSFULL)
    /\ Messaged(DISPLACED_OPPONENT)
    /\ ~Messaged(MOVE_BLOCKED)
    /\ ~Messaged(FREE_TURN)
    /\ ~Messaged(PATH_COMPLETE)

\* C18: PathComplete is decided by the path length: a successful move is
\* flagged PathComplete, and scores, exactly when its target index is
\* path_length - 1; the test the code makes on the target cell's tile type
\* gives the same answer.
C18_PathCompleteByLength ==
    [](\A d \in 1 .. DiceCount :
         LET s0 == [Fresh EXCEPT !.rolled_value = d]
         IN  \A t \in TokenSet :
           LET target == tokens[t].path_position + d
               move_check == resolve(s0, t)[1]
           IN  target < PathLen(t[1]) =>
                 /\ BoardAt(PathAt(t[1], target)) = TILE_GOAL <=> target = PathLen(t[1]) - 1
                 /\ In(PATH_COMPLETE, move_check) <=> target = PathLen(t[1]) - 1
                 /\ In(PATH_COMPLETE, move_check) =>
                       move_check = <<MOVE_SUCCESSFULL, PATH_COMPLETE>>
                 /\ Resolves(t) =>
                       \A reply \in Replies :
                          LET s2 == selection_made(s0, t, reply)
                          IN  (target = PathLen(t[1]) - 1) <=>
                                 \E k \in 1 .. Len(s2.events) :
                                    s2.events[k][1] = "point_scored")

\* Player 1's token has just completed its path on the last index.
C18_Witness ==
    /\ Messaged(PATH_COMPLETE)
    /\ \E t \in TokenSet :
          /\ t[1] = 1
          /\ tokens[t].finished
          /\ tokens[t].path_position = PathLen(t[1]) - 1
          /\ BoardAt(PathAt(t[1], tokens[t].path_position)) = TILE_GOAL

\* C19: a rolled distance of 0 is tested before every other rule: in Moving
\* with rolled distance 0 every selection of a token of the active player,
\* at home, on the board or finished, is Blocked(InvalidMove) and moves
\* nothing, can_move is false for every token, and a roll that totals 0
\* always emits the no-legal-move signal.
C19_ZeroIsInvalid ==
    /\ (turn_stage = STAGE_MOVING /\ rolled_value = 0) =>
          /\ \A t \in TokenSet : ~token_can_move(Session, t, rolled_value)
          /\ ~can_move(Session, rolled_value, player_turn)
          /\ \A t \in TokenSet :
                Resolves(t) =>
                   /\ resolve(Session, t) = << <<MOVE_BLOCKED, INVALID_MOVE>>, NoToken >>
                   /\ \A reply \in Replies :
                         LET s2 == selection_made(Fresh, t, reply)
                         IN  /\ SameGame(s2)
                             /\ s2.events =
                                  << <<"message_updated", <<MOVE_BLOCKED, INVALID_MOVE>> >> >>
    /\ (running /\ turn_stage = STAGE_ROLLING) =>
          \A rolled_values \in DiceRolls :
             sum(rolled_values) = 0 =>
                LET s2 == roll_dice(Fresh, rolled_values)
                IN  /\ s2.rolled_value = 0
                    /\ s2.events = << <<"dice_rolled", rolled_values>>, <<"cant_move">> >>

\* With rolled distance 0 a selection was just refused as InvalidMove while
\* the active player holds a token on the board and another that is at home
\* or finished.
C19_Witness ==
    /\ events = << <<"message_updated", <<MOVE_BLOCKED, INVALID_MOVE>> >> >>
    /\ turn_stage = STAGE_MOVING
    /\ rolled_value = 0
    /\ \E t1 \in TokenSet, t2 \in TokenSet :
          /\ t1[1] = player_turn /\ t2[1] = player_turn
          /\ OnBoard(t1)
          /\ tokens[t2].finished \/ tokens[t2].path_position = -1

\* How many of the rolls in the sequence of rolled distances totals give d
RECURSIVE Cases(_, _)
Cases(totals, d) ==
    IF totals = <<>> THEN 0
    ELSE (IF Head(totals) = d THEN 1 ELSE 0) + Cases(Tail(totals), d)

\* The 16 combinations of die values, in binary order
Combination(n) ==
    [k \in 1 .. DiceCount |-> (n \div (2 ^ (k - 1))) % 2]

SharedZone == 4 .. 11

\* Whether the command that just ran started a new game
NewGameStarted(log) == \E k \in 1 .. Len(log) : log[k] = <<"new_game_started">>

\* C21: captures happen only in the shared zone: every token sent home by a
\* displacement stood at a path index in 4..11; a token on path indices 0..3
\* or 12..13 is never displaced, because no cell of those segments lies on
\* the opponent's path.
C21_CapturesInSharedZone ==
    /\ [](/\ \A k \in 0 .. PathLen(0) - 1, j \in 0 .. PathLen(1) - 1 :
               PathAt(0, k) = PathAt(1, j) => (k = j /\ k \in SharedZone)
          /\ \A t \in TokenSet, d \in 1 .. DiceCount :
               LET r == resolve([Fresh EXCEPT !.rolled_value = d], t)
               IN  In(DISPLACED_OPPONENT, r[1]) =>
                      /\ r[2] # NoToken /\ r[2][1] # t[1]
                      /\ tokens[r[2]].path_position \in SharedZone)
    /\ [][\A t \in TokenSet :
             (/\ tokens[t].on_path
              /\ tokens'[t].path_position = -1
              /\ ~NewGameStarted(events')) =>
                 /\ tokens[t].path_position \in SharedZone
                 /\ t[1] # player_turn
                 /\ Messaged(DISPLACED_OPPONENT)']_vars

\* A token was just displaced by a mover that now stands on an ordinary cell
\* of the shared zone.
C21_Witness ==
    /\ Messaged(DISPLACED_OPPONENT)
    /\ \E t \in TokenSet :
          /\ t[1] # player_turn
          /\ tokens[t].on_path
          /\ tokens[t].path_position \in SharedZone
          /\ BoardAt(PathAt(t[1], tokens[t].path_position)) = TILE_NORMAL

\* C22: token state is consistent between commands: path_position is in
\* -1..14, finished holds exactly when path_position = 14, on_path holds
\* exactly when 0 <= path_position <= 13, and a home token is neither
\* on_path nor finished.
C22_TokenConsistent ==
    \A t \in TokenSet :
        /\ tokens[t].path_position \in -1 .. PathLen(t[1]) - 1
        /\ tokens[t].finished <=> tokens[t].path_position = PathLen(t[1]) - 1
        /\ tokens[t].on_path <=> tokens[t].path_position \in 0 .. PathLen(t[1]) - 2
        /\ tokens[t].path_position = -1 => tokens[t] = HomeToken

\* A player holds a finished token, off the path at index 14, next to a
\* token still at home.
C22_Witness ==
    \E t1 \in TokenSet, t2 \in TokenSet :
        /\ t1[1] = t2[1]
        /\ tokens[t1].finished /\ ~tokens[t1].on_path
        /\ tokens[t1].path_position = 14
        /\ tokens[t2] = HomeToken

\* C23: while the engine is paused by setEngineActive(false), rolls and token
\* selections are ignored and leave the whole session unchanged; after
\* setEngineActive(true) a game in progress resumes from exactly the state
\* it was paused in.
C23_PauseResume ==
    [](LET paused == set_event_active(Fresh, FALSE)
       IN  /\ ~paused.running
           /\ [paused EXCEPT !.running = running] = Fresh
           /\ \A rolled_values \in DiceRolls : roll_dice(paused, rolled_values) = paused
           /\ \A t \in TokenSet, reply \in Replies :
                 selection_made(paused, t, reply) = paused
           /\ set_event_active(paused, TRUE) = [Fresh EXCEPT !.running = TRUE]
           /\ running => set_event_active(paused, TRUE) = Fresh
           /\ ~running =>
                 /\ \A rolled_values \in DiceRolls :
                       roll_dice(Fresh, rolled_values) = Fresh
                 /\ \A t \in TokenSet, reply \in Replies :
                       selection_made(Fresh, t, reply) = Fresh)

\* A game in progress was just paused in the middle of a turn, with a token
\* on the board that its player could otherwise move.
C23_Witness ==
    /\ ~running
    /\ events = <<>>
    /\ turn_stage = STAGE_MOVING
    /\ ~Won
    /\ \E t \in TokenSet :
          /\ t[1] = player_turn /\ OnBoard(t)
          /\ token_can_move(Session, t, rolled_value)

\* C24: only the active player's tokens can be moved, and only in Moving:
\* selecting a token of the non-active player, or any token while the stage
\* is Rolling, changes no token, score, turn or stage and emits no message.
C24_OnlyActiveInMoving ==
    \A t \in TokenSet :
        (t[1] # player_turn \/ turn_stage # STAGE_MOVING) =>
            \A reply \in Replies :
                LET s2 == selection_made(Fresh, t, reply)
                IN  /\ s2.events = <<>>
                    /\ SameGame(s2)
                    /\ s2 = Fresh

\* In Moving, with the engine active, nothing came of the last command although
\* the non-active player holds a token that the rolled distance could move.
C24_Witness ==
    /\ running
    /\ turn_stage = STAGE_MOVING
    /\ events = <<>>
    /\ rolled_value >= 1
    /\ \E t \in TokenSet :
          /\ t[1] # player_turn
          /\ token_can_move(Session, t, rolled_value)

\* Whether selecting t now scores the point that wins the game
Winning(t) == Finishing(t) /\ player_scores[t[1]] + 1 >= target_score

\* C25: when startNewGame is invoked in response to the gameWon notification
\* (the win dialog answered Ok), then once the winning selection has been
\* processed the session is a fresh game: every token home, both scores 0,
\* player_turn 0, turn_stage Rolling, and the engine active so that the next
\* roll is honored.
C25_NestedNewGameIsFresh ==
    \A t \in TokenSet :
        Winning(t) =>
            LET s2 == selection_made(Fresh, t, "Ok")
            IN  /\ \A t2 \in TokenSet : s2.tokens[t2] = HomeToken
                /\ \A p \in Players : s2.player_scores[p] = 0
                /\ s2.player_turn = 0
                /\ s2.turn_stage = STAGE_ROLLING
                /\ s2.running
                /\ \A rolled_values \in DiceRolls :
                      roll_dice([s2 EXCEPT !.events = <<>>], rolled_values).turn_stage
                         = STAGE_MOVING

\* What a successful selection of t leaves of the tokens when no new game is
\* started: t at its target, a displaced opponent at home, the rest as before
MovedTokens(s2, t) ==
    LET collision == resolve(Session, t)[2]
    IN  /\ s2.tokens[t].path_position = Target(t)
        /\ \A t2 \in TokenSet \ {t} :
              IF t2 = collision
              THEN s2.tokens[t2].path_position = -1
              ELSE s2.tokens[t2] = tokens[t2]

TurnStarts(log) == SelectSeq(log, LAMBDA e : e[1] = "roll_requested")

\* C27: every transition into Rolling (new game, end of turn after a move,
\* explicit endTurn, free turn) emits exactly one turn-start notification,
\* which carries the player who is to roll, the player_turn of that moment;
\* a command that makes two such transitions, the winning move whose dialog
\* starts a new game, emits one for each.
C27_OneTurnStartPerTransition ==
    /\ [](/\ \A p \in Players :
                LET s2 == start_turn(Fresh, p)
                IN  /\ s2.events = << <<"roll_requested", s2.player_turn>> >>
                    /\ s2.player_turn = p /\ s2.turn_stage = STAGE_ROLLING
          /\ LET s2 == end_turn(Fresh)
             IN  /\ s2.events = << <<"roll_requested", s2.player_turn>> >>
                 /\ s2.turn_stage = STAGE_ROLLING
          /\ LET s2 == free_turn(Fresh)
             IN  /\ s2.events = << <<"roll_requested", s2.player_turn>> >>
                 /\ s2.player_turn = player_turn /\ s2.turn_stage = STAGE_ROLLING
          /\ LET s2 == start_game(Fresh)
             IN  /\ TurnStarts(s2.events) = << <<"roll_requested", s2.player_turn>> >>
                 /\ s2.turn_stage = STAGE_ROLLING)
    /\ [][LET starts == TurnStarts(events')
              n == Len(starts)
          IN  /\ n = IF NewGameStarted(events') /\ events'[1] # <<"new_game_started">>
                     THEN 2
                     ELSE IF turn_stage' = STAGE_ROLLING /\ events' # <<>> THEN 1 ELSE 0
              /\ n > 0 => /\ starts[n][2] = player_turn'
                          /\ turn_stage' = STAGE_ROLLING
              /\ n = 0 => /\ player_turn' = player_turn
                          /\ turn_stage' = STAGE_ROLLING => turn_stage = STAGE_ROLLING]_vars

\* A free turn was just granted: one turn start, for the player who moved.
C27_Witness ==
    /\ events = << <<"roll_requested", player_turn>>,
                   <<"message_updated", <<MOVE_SUCCESSFULL, FREE_TURN>> >> >>
    /\ turn_stage = STAGE_ROLLING

\* C28: between two startNewGame calls gameWon is emitted at most once, for
\* the first player whose score reaches target_score and after the
\* scoreChanged notification for that point; once a player has won, no
\* command declares a winner again in the same game.
C28_OneWinnerPerGame ==
    [][\A k \in 1 .. Len(events') :
          events'[k][1] = "game_won" =>
             /\ ~Won
             /\ k > 2
             /\ events'[k - 2] = <<"point_scored", events'[k][2], target_score>>
             /\ \A j \in 1 .. Len(events') : events'[j][1] = "game_won" => j = k]_vars

\* The finished tokens of player p
FinishedOf(p) == {t \in TokenSet : t[1] = p /\ tokens[t].finished}

\* C29: between commands each player's score equals the number of that
\* player's finished tokens, and is therefore between 0 and token_count
\* (= target_score, 7 in the program).
C29_ScoreCountsFinished ==
    /\ target_score = token_count
    /\ \A p \in Players :
          /\ player_scores[p] = Cardinality(FinishedOf(p))
          /\ player_scores[p] \in 0 .. token_count

\* Player 1 has one point for one finished token and holds another token that
\* has not finished.
C29_Witness ==
    /\ player_scores[1] = 1
    /\ Cardinality(FinishedOf(1)) = 1
    /\ player_scores[0] = 0
    /\ \E t \in TokenSet : t[1] = 1 /\ ~tokens[t].finished

\* C30: whenever turn_stage is Moving the rolled distance is defined and is
\* the value (0..4) of the most recent honored roll, made by the player who
\* is still the active player; no command, startNewGame and endTurn
\* included, reaches Moving with an undefined or stale rolled distance.
C30_RolledValueCurrent ==
    /\ [](turn_stage = STAGE_MOVING =>
             /\ rolled_value # None
             /\ rolled_value \in 0 .. DiceCount)
    /\ [][turn_stage' = STAGE_MOVING =>
             \/ /\ turn_stage = STAGE_MOVING
                /\ rolled_value' = rolled_value
                /\ player_turn' = player_turn
                /\ ~Emitted("dice_rolled")'
             \/ /\ turn_stage = STAGE_ROLLING
                /\ running
                /\ player_turn' = player_turn
                /\ events'[1][1] = "dice_rolled"
                /\ events'[1][2] \in DiceRolls
                /\ rolled_value' = sum(events'[1][2])]_vars
    /\ [][(turn_stage' # STAGE_MOVING /\ turn_stage = STAGE_MOVING) =>
             \/ NewGameStarted(events') /\ rolled_value' = None
             \/ rolled_value' = rolled_value]_vars

\* Player 1 has just rolled 0 in a turn that follows a move made with a
\* rolled distance above 0.
C30_Witness ==
    /\ turn_stage = STAGE_MOVING
    /\ player_turn = 1
    /\ Len(events) = 2
    /\ events[1][1] = "dice_rolled"
    /\ rolled_value = 0
    /\ moves >= 1

\* C31: the no-legal-move verdict of the roll stays accurate for the whole
\* Moving stage. It is signalled exactly when no token of the active player
\* can move and nothing it depends on changes while the stage stays Moving;
\* if it was signalled every selection before the next endTurn or
\* startNewGame is refused or ignored and moves nothing; if it was not, at
\* least one token of the active player is still selected with Success, so
\* the player is never left with neither a legal move nor the signal.
C31_VerdictStaysAccurate ==
    /\ [](turn_stage = STAGE_MOVING =>
             /\ Emitted("dice_rolled") =>
                   (Emitted("cant_move") <=> NoLegalMove(Session))
             /\ running =>
                   IF NoLegalMove(Session)
                   THEN \A t \in TokenSet, reply \in Replies :
                           LET s2 == selection_made(Fresh, t, reply)
                           IN  /\ SameGame(s2)
                               /\ \A k \in 1 .. Len(s2.events) :
                                     /\ s2.events[k][1] = "message_updated"
                                     /\ In(MOVE_BLOCKED, s2.events[k][2])
                   ELSE \E t \in TokenSet :
                           /\ t[1] = player_turn
                           /\ token_can_move(Session, t, rolled_value)
                           /\ \A reply \in Replies :
                                 LET s2 == selection_made(Fresh, t, reply)
                                 IN  /\ s2.turn_stage = STAGE_ROLLING
                                     /\ \E k \in 1 .. Len(s2.events) :
                                           /\ s2.events[k][1] = "message_updated"
                                           /\ In(MOVE_SUCCESSFULL, s2.events[k][2]))
    /\ [][turn_stage' = STAGE_MOVING =>
             IF turn_stage = STAGE_MOVING
             THEN /\ tokens' = tokens
                  /\ rolled_value' = rolled_value
                  /\ player_turn' = player_turn
                  /\ ~Emitted("dice_rolled")'
             ELSE Emitted("dice_rolled")']_vars

\* In Moving, a selection of the active player was just refused, while the
\* roll had not signalled no-legal-move and another token can still move.
C31_Witness ==
    /\ turn_stage = STAGE_MOVING
    /\ running
    /\ rolled_value >= 1
    /\ Messaged(MOVE_BLOCKED)
    /\ ~NoLegalMove(Session)
    /\ can_move(Session, rolled_value, player_turn)

====
